---- MODULE Spec2Model ----
(***************************************************************************)
(* Model of src/kconfig.rs: the parser of kconfig .config files            *)
(* (Value::parse, load), the CfgArgs collection (gather, output,           *)
(* propagate) and the reading side of the propagation channel              *)
(* (output_propagated).                                                    *)
(*                                                                         *)
(* Text is a sequence of one-character strings, so that trimming,          *)
(* splitting, joining and lowercasing are computed character by character  *)
(* as the code computes them.  Option<T> and Result<T, E> values whose     *)
(* error carries no information used here are sequences of length at most  *)
(* one: Some(v) is <<v>>, None is <<>>.                                    *)
(***************************************************************************)
EXTENDS Integers, Sequences, FiniteSets, TLC

VARIABLES
    raw,        \* the argument handed to Value::parse
    parsed,     \* <<result>> once Value::parse has returned, <<>> before
    file,       \* the lines of the file at ConfigPath, each io::Result<String>
    args,       \* CfgArgs.0 : Vec<(String, Value)>
    pc,         \* position of the build scripts
    stdout,     \* cargo instructions printed by each build script, in order
    gathered,   \* per prefix, the lists the gather(prefix) calls returned, in call order
    calls,      \* number of CfgArgs method calls made by the running build script
    called,     \* the latest method call: its name and its argument
    published,  \* the prefix propagate was called with
    env,        \* environment of the dependent's build script
    ret         \* Result<()> of the latest output_propagated call

vars ==
    <<raw, parsed, file, args, pc, stdout, gathered, calls, called, published, env, ret>>

----------------------------------------------------------------------------
(* Bounds of the model.                                                    *)

MaxRawLen == 3      \* longest argument of Value::parse that is enumerated
MaxLineLen == 3     \* longest exhaustively enumerated line of a file
MaxLines == 2       \* most lines of a file built from SampleLines
MaxPairs == 2       \* most pairs of an enumerated CfgArgs
MaxCalls == 3       \* most CfgArgs method calls of one build script
MaxValueLen == 3    \* longest enumerated value of an environment variable

----------------------------------------------------------------------------
(* Option / Result encoding.                                               *)

None == <<>>
Some(v) == <<v>>
IsSome(o) == Len(o) = 1

SeqsUpTo(S, n) == UNION {[1..k -> S] : k \in 0..n}

----------------------------------------------------------------------------
(* str primitives used by the code.                                        *)

WhiteSpace == {" ", "\t"}

UpperCase == <<"A", "B", "C", "D", "E", "F", "G", "H", "I", "J", "K", "L", "M",
               "N", "O", "P", "Q", "R", "S", "T", "U", "V", "W", "X", "Y", "Z">>
LowerCase == <<"a", "b", "c", "d", "e", "f", "g", "h", "i", "j", "k", "l", "m",
               "n", "o", "p", "q", "r", "s", "t", "u", "v", "w", "x", "y", "z">>

char_to_lowercase(c) ==
    IF \E i \in DOMAIN UpperCase : UpperCase[i] = c
    THEN LowerCase[CHOOSE i \in DOMAIN UpperCase : UpperCase[i] = c]
    ELSE c

to_lowercase(s) == [i \in 1..Len(s) |-> char_to_lowercase(s[i])]

starts_with(s, c) == Len(s) > 0 /\ s[1] = c

RECURSIVE trim_start(_)
trim_start(s) ==
    IF Len(s) > 0 /\ s[1] \in WhiteSpace THEN trim_start(Tail(s)) ELSE s

RECURSIVE trim_end(_)
trim_end(s) ==
    IF Len(s) > 0 /\ s[Len(s)] \in WhiteSpace
    THEN trim_end(SubSeq(s, 1, Len(s) - 1))
    ELSE s

trim(s) == trim_end(trim_start(s))

\* str::split(sep): every segment between separators, empty segments kept;
\* a text without separator is one segment, the empty text is one empty segment.
RECURSIVE split(_, _)
split(s, sep) ==
    IF \E i \in 1..Len(s) : s[i] = sep
    THEN LET i == CHOOSE j \in 1..Len(s) :
                      s[j] = sep /\ \A k \in 1..(j - 1) : s[k] # sep
         IN  <<SubSeq(s, 1, i - 1)>> \o split(SubSeq(s, i + 1, Len(s)), sep)
    ELSE <<s>>

\* [String]::join(sep)
RECURSIVE join(_, _)
join(names, sep) ==
    IF Len(names) = 0 THEN <<>>
    ELSE IF Len(names) = 1 THEN names[1]
    ELSE names[1] \o <<sep>> \o join(Tail(names), sep)

----------------------------------------------------------------------------
(* Tristate, Value and Value::parse.                                       *)

Tristate == {"True", "False", "Module", "NotSet"}

Value_Tristate(t) == [tag |-> "Tristate", tristate |-> t]
Value_String(s) == [tag |-> "String", string |-> s]

\* parse, were it to compare the tristate literals without regard to case.
parse_ignoring_case(str) ==
    IF starts_with(str, "\"") THEN Some(Value_String(str))
    ELSE IF to_lowercase(str) = <<"y">> THEN Some(Value_Tristate("True"))
    ELSE IF to_lowercase(str) = <<"n">> THEN Some(Value_Tristate("False"))
    ELSE IF to_lowercase(str) = <<"m">> THEN Some(Value_Tristate("Module"))
    ELSE None

parse(str) ==
    IF starts_with(str, "\"") THEN Some(Value_String(str))
    ELSE IF str = <<"y">> THEN Some(Value_Tristate("True"))
    ELSE IF str = <<"n">> THEN Some(Value_Tristate("False"))
    ELSE IF str = <<"m">> THEN Some(Value_Tristate("Module"))
    ELSE None

----------------------------------------------------------------------------
(* load: the per-line pipeline of the iterator, then the whole file.       *)

\* One line through the three adaptors of load: line.ok() and trim, the
\* comment filter, and the closure that splits on '=' and parses the value.
load_line(line) ==
    IF ~IsSome(line) THEN None
    ELSE LET l == trim(line[1])
         IN  IF starts_with(l, "#") THEN None
             ELSE LET parts == split(l, "=")
                      key == parts[1]
                  IN  IF Len(parts) < 2 THEN None
                      ELSE LET value == parse(trim(parts[2]))
                           IN  IF IsSome(value)
                               THEN Some([key |-> key, value |-> value[1]])
                               ELSE None

RECURSIVE load(_)
load(lines) ==
    IF Len(lines) = 0 THEN <<>>
    ELSE load_line(Head(lines)) \o load(Tail(lines))

----------------------------------------------------------------------------
(* CfgArgs::gather.                                                        *)

\* gather's closure, were it to count Tristate(Module) as enabled too.
gather_pair_with_modules(pair, prefix) ==
    IF pair.value \in {Value_Tristate("True"), Value_Tristate("Module")}
    THEN Some(to_lowercase(prefix) \o <<"_">> \o to_lowercase(pair.key))
    ELSE None

gather_pair(pair, prefix) ==
    IF pair.value = Value_Tristate("True")
    THEN Some(to_lowercase(prefix) \o <<"_">> \o to_lowercase(pair.key))
    ELSE None

RECURSIVE gather(_, _)
gather(self, prefix) ==
    IF Len(self) = 0 THEN <<>>
    ELSE gather_pair(Head(self), prefix) \o gather(Tail(self), prefix)

----------------------------------------------------------------------------
(* The cargo sinks: each prints one instruction on the build script's      *)
(* standard output.                                                        *)

set_rustc_cfg(out, key, value) ==
    Append(out, [instr |-> "rustc-cfg", name |-> key, val |-> value])

set_metadata(out, key, value) ==
    Append(out, [instr |-> "metadata", key |-> key, value |-> value])

\* for arg in <names> { cargo::set_rustc_cfg(arg, "") }
RECURSIVE emit_each(_, _)
emit_each(out, names) ==
    IF Len(names) = 0 THEN out
    ELSE emit_each(set_rustc_cfg(out, Head(names), <<>>), Tail(names))

VAR_CFG_ARGS_KEY == "EMBUILD_CFG_ARGS"

\* format!("DEP_{}_{}", lib_name, VAR_CFG_ARGS_KEY)
dep_var_name(lib_name) == "DEP_" \o lib_name \o "_" \o VAR_CFG_ARGS_KEY

\* Values a variable of the process environment can have.
NotPresent == [state |-> "NotPresent"]
NotUnicode == [state |-> "NotUnicode"]
Unicode(text) == [state |-> "Unicode", text |-> text]

\* std::env::var: Ok(text) for a variable that is set to valid Unicode,
\* Err(VarError) for one that is not set or whose value is not valid Unicode.
env_var(e, name) ==
    IF name \in DOMAIN e /\ e[name].state = "Unicode"
    THEN Some(e[name].text)
    ELSE None

----------------------------------------------------------------------------
(* Inputs.                                                                 *)

ConfigPath == "sdkconfig"
Paths == {ConfigPath, "missing"}

Prefixes == {<<"F", "O", "O">>, <<"p", ":">>}

Links == {"foo"}
LibNames == {"foo", "FOO", "bar"}
EnvNames == {dep_var_name("foo"), dep_var_name("bar")}

ParseChars == {"\"", "y", "n", "m", "Y", "e", "s", " ", "="}
LineChars == {"A", "=", "y", ":", " ", "#"}
ValueChars == {"a", ":"}

Ok(text) == Some(text)
InvalidData == None

SampleLines ==
    { Ok(<<"A", "=", "y">>),
      Ok(<<"#", " ", "c", "o", "m", "m", "e", "n", "t">>),
      Ok(<<"B", "=", "n">>),
      Ok(<<"g", "a", "r", "b", "a", "g", "e">>),
      Ok(<<"C", "=", "m">>),
      Ok(<<" ", "D", " ", "=", " ", "y", " ">>),
      Ok(<<"K", "=", "y", "=", "z">>),
      Ok(<<"K", "=", "\"", "a", "=", "b", "\"">>),
      Ok(<<"\t", "Q", "u", "x", "=", "y", "\t">>),
      Ok(<<"A", ":", "B", "=", "y">>),
      InvalidData }

ExampleFile ==
    << Ok(<<"A", "=", "y">>),
       Ok(<<"#", " ", "c", "o", "m", "m", "e", "n", "t">>),
       Ok(<<"B", "=", "n">>),
       Ok(<<"g", "a", "r", "b", "a", "g", "e">>),
       Ok(<<"C", "=", "m">>),
       Ok(<<" ", "D", " ", "=", " ", "y", " ">>) >>

Files ==
    {ExampleFile}
        \cup SeqsUpTo(SampleLines, MaxLines)
        \cup {<<Ok(l)>> : l \in SeqsUpTo(LineChars, MaxLineLen)}

Keys == {<<"B", "a", "r">>, <<"q">>}
Values ==
    {Value_Tristate(t) : t \in Tristate} \cup {Value_String(<<"\"", "y", "\"">>)}
Pairs == [key : Keys, value : Values]

ExampleArgs ==
    << [key |-> <<"B", "a", "r">>, value |-> Value_Tristate("True")],
       [key |-> <<"B", "a", "z">>, value |-> Value_Tristate("False")],
       [key |-> <<"Q", "u", "x">>, value |-> Value_Tristate("True")] >>

ConfigSets == {ExampleArgs} \cup SeqsUpTo(Pairs, MaxPairs)

EnvValues ==
    {NotPresent, NotUnicode}
        \cup {Unicode(v) : v \in SeqsUpTo(ValueChars, MaxValueLen)}

----------------------------------------------------------------------------
(* Initial states.                                                         *)

NoStdout == [producer |-> <<>>, dependent |-> <<>>]
NoEnv == [name \in EnvNames |-> NotPresent]
NoGather == [prefix \in Prefixes |-> <<>>]
NoCall == [op |-> "none", prefix |-> <<>>, lib_name |-> ""]
Call(op, prefix, lib_name) == [op |-> op, prefix |-> prefix, lib_name |-> lib_name]

\* A build script about to load the file at ConfigPath.
Init ==
    /\ file \in Files
    /\ pc = "start"
    /\ args = <<>>
    /\ raw = <<>> /\ parsed = None
    /\ stdout = NoStdout /\ gathered = NoGather /\ calls = 0 /\ called = NoCall
    /\ published = None /\ env = NoEnv /\ ret = "none"

\* Value::parse about to be applied to a text.
InitParse ==
    /\ raw \in SeqsUpTo(ParseChars, MaxRawLen)
    /\ parsed = None
    /\ pc = "parse"
    /\ file = <<>> /\ args = <<>>
    /\ stdout = NoStdout /\ gathered = NoGather /\ calls = 0 /\ called = NoCall
    /\ published = None /\ env = NoEnv /\ ret = "none"

\* A build script holding a CfgArgs.
InitCfg ==
    /\ args \in ConfigSets
    /\ pc = "loaded"
    /\ file = <<>>
    /\ raw = <<>> /\ parsed = None
    /\ stdout = NoStdout /\ gathered = NoGather /\ calls = 0 /\ called = NoCall
    /\ published = None /\ env = NoEnv /\ ret = "none"

\* A dependent's build script started with some environment.
InitDep ==
    /\ env \in [EnvNames -> EnvValues]
    /\ pc = "dependent"
    /\ file = <<>> /\ args = <<>>
    /\ raw = <<>> /\ parsed = None
    /\ stdout = NoStdout /\ gathered = NoGather /\ calls = 0 /\ called = NoCall
    /\ published = None /\ ret = "none"

----------------------------------------------------------------------------
(* Operations.                                                             *)

Value_parse ==
    /\ pc = "parse"
    /\ parsed = None
    /\ parsed' = Some(parse(raw))
    /\ UNCHANGED <<raw, file, args, pc, stdout, gathered, calls, called, published, env, ret>>

\* impl TryFrom<&Path> for CfgArgs: fs::File::open(path)? then collect.
try_from(path) ==
    /\ pc = "start"
    /\ IF path = ConfigPath
       THEN args' = load(file) /\ pc' = "loaded"
       ELSE args' = args /\ pc' = "io_error"
    /\ UNCHANGED <<raw, parsed, file, stdout, gathered, calls, called, published, env, ret>>

gather_call(prefix) ==
    /\ pc = "loaded"
    /\ calls < MaxCalls
    /\ gathered' = [gathered EXCEPT ![prefix] = Append(@, gather(args, prefix))]
    /\ calls' = calls + 1
    /\ called' = Call("gather", prefix, "")
    /\ UNCHANGED <<raw, parsed, file, args, pc, stdout, published, env, ret>>

\* output, were it to drain the pairs it walks.
output_draining(prefix) ==
    /\ pc = "loaded"
    /\ calls < MaxCalls
    /\ stdout' = [stdout EXCEPT !.producer = emit_each(@, gather(args, prefix))]
    /\ args' = <<>>
    /\ calls' = calls + 1
    /\ called' = Call("output", prefix, "")
    /\ UNCHANGED <<raw, parsed, file, pc, gathered, published, env, ret>>

output(prefix) ==
    /\ pc = "loaded"
    /\ calls < MaxCalls
    /\ stdout' = [stdout EXCEPT !.producer = emit_each(@, gather(args, prefix))]
    /\ calls' = calls + 1
    /\ called' = Call("output", prefix, "")
    /\ UNCHANGED <<raw, parsed, file, args, pc, gathered, published, env, ret>>

\* propagate, were it to emit the flags for the calling step as well.
propagate_and_emit(prefix) ==
    /\ pc = "loaded"
    /\ calls < MaxCalls
    /\ stdout' = [stdout EXCEPT !.producer =
                      set_metadata(emit_each(@, gather(args, prefix)),
                                   VAR_CFG_ARGS_KEY, join(gather(args, prefix), ":"))]
    /\ published' = Some(prefix)
    /\ calls' = calls + 1
    /\ called' = Call("propagate", prefix, "")
    /\ UNCHANGED <<raw, parsed, file, args, pc, gathered, env, ret>>

propagate(prefix) ==
    /\ pc = "loaded"
    /\ calls < MaxCalls
    /\ stdout' = [stdout EXCEPT !.producer =
                      set_metadata(@, VAR_CFG_ARGS_KEY, join(gather(args, prefix), ":"))]
    /\ published' = Some(prefix)
    /\ calls' = calls + 1
    /\ called' = Call("propagate", prefix, "")
    /\ UNCHANGED <<raw, parsed, file, args, pc, gathered, env, ret>>

\* The value of the latest write of `key` among the instructions of `out`.
RECURSIVE metadata_value(_, _)
metadata_value(out, key) ==
    IF Len(out) = 0 THEN None
    ELSE LET last == out[Len(out)]
         IN  IF last.instr = "metadata" /\ last.key = key
             THEN Some(last.value)
             ELSE metadata_value(SubSeq(out, 1, Len(out) - 1), key)

\* The orchestrator, once the producer's build script has ended: it starts the
\* build script of a direct dependent with DEP_<links>_<key> set to the
\* metadata the producer (whose manifest names `links`) wrote under <key>.
run_dependent(links) ==
    /\ pc = "loaded"
    /\ pc' = "dependent"
    /\ calls' = 0
    /\ called' = NoCall
    /\ LET value == metadata_value(stdout.producer, VAR_CFG_ARGS_KEY)
       IN  env' = IF IsSome(value)
                  THEN [env EXCEPT ![dep_var_name(links)] = Unicode(value[1])]
                  ELSE env
    /\ UNCHANGED <<raw, parsed, file, args, stdout, gathered, published, ret>>

\* output_propagated, were it to read an absent variable as the empty text.
output_propagated_or_default(lib_name) ==
    /\ pc = "dependent"
    /\ calls < MaxCalls
    /\ calls' = calls + 1
    /\ called' = Call("output_propagated", <<>>, lib_name)
    /\ LET value == env_var(env, dep_var_name(lib_name))
           text == IF IsSome(value) THEN value[1] ELSE <<>>
       IN  /\ stdout' = [stdout EXCEPT !.dependent = emit_each(@, split(text, ":"))]
           /\ ret' = "Ok"
    /\ UNCHANGED <<raw, parsed, file, args, pc, gathered, published, env>>

NonEmpty(s) == Len(s) > 0

\* output_propagated, were it to skip the empty segments of the value.
output_propagated_skipping_empty(lib_name) ==
    /\ pc = "dependent"
    /\ calls < MaxCalls
    /\ calls' = calls + 1
    /\ called' = Call("output_propagated", <<>>, lib_name)
    /\ LET value == env_var(env, dep_var_name(lib_name))
       IN  IF IsSome(value)
           THEN /\ stdout' = [stdout EXCEPT !.dependent =
                                  emit_each(@, SelectSeq(split(value[1], ":"), NonEmpty))]
                /\ ret' = "Ok"
           ELSE /\ stdout' = stdout
                /\ ret' = "Err"
    /\ UNCHANGED <<raw, parsed, file, args, pc, gathered, published, env>>

output_propagated(lib_name) ==
    /\ pc = "dependent"
    /\ calls < MaxCalls
    /\ calls' = calls + 1
    /\ called' = Call("output_propagated", <<>>, lib_name)
    /\ LET value == env_var(env, dep_var_name(lib_name))
       IN  IF IsSome(value)
           THEN /\ stdout' = [stdout EXCEPT !.dependent =
                                  emit_each(@, split(value[1], ":"))]
                /\ ret' = "Ok"
           ELSE /\ stdout' = stdout
                /\ ret' = "Err"
    /\ UNCHANGED <<raw, parsed, file, args, pc, gathered, published, env>>

----------------------------------------------------------------------------
(* Specifications.                                                         *)

\* A producer's build script that loads the file and publishes, then a
\* dependent's build script that reads what was published.
Next ==
    \/ \E path \in Paths : try_from(path)
    \/ \E prefix \in Prefixes : propagate(prefix)
    \/ \E links \in Links : run_dependent(links)
    \/ \E lib_name \in LibNames : output_propagated(lib_name)

Spec == Init /\ [][Next]_vars

NextParse == Value_parse

SpecParse == InitParse /\ [][NextParse]_vars

NextLoad == \E path \in Paths : try_from(path)

SpecLoad == Init /\ [][NextLoad]_vars

NextCfg ==
    \/ \E prefix \in Prefixes : gather_call(prefix)
    \/ \E prefix \in Prefixes : output(prefix)
    \/ \E prefix \in Prefixes : propagate(prefix)

SpecCfg == InitCfg /\ [][NextCfg]_vars

NextDep == \E lib_name \in LibNames : output_propagated(lib_name)

SpecDep == InitDep /\ [][NextDep]_vars

----------------------------------------------------------------------------
(* Helpers of the properties.                                              *)

Range(f) == {f[i] : i \in DOMAIN f}

HasChar(s, c) == \E i \in 1..Len(s) : s[i] = c

IsFlag(i) == i.instr = "rustc-cfg"
IsMetadata(i) == i.instr = "metadata"

\* The names of the conditional-compilation flags among printed instructions.
FlagNames(out) ==
    LET flags == SelectSeq(out, IsFlag)
    IN  [i \in 1..Len(flags) |-> flags[i].name]

IsEnabled(pair) == pair.value = Value_Tristate("True")

\* lowercase(prefix) + "_" + lowercase(key) for each pair that is
\* Tristate(True), in stored order.
ExpectedNames(pairs, prefix) ==
    LET enabled == SelectSeq(pairs, IsEnabled)
    IN  [i \in 1..Len(enabled) |->
            to_lowercase(prefix) \o <<"_">> \o to_lowercase(enabled[i].key)]

----------------------------------------------------------------------------
(* Properties of Value::parse.                                             *)

\* C6: Value::parse applies its rules in order: a text beginning with '"'
\* gives String(the text unchanged); otherwise exactly "y", "n", "m" give
\* Tristate(True), Tristate(False), Tristate(Module); every other text gives
\* no value; Tristate(NotSet) is never produced.
C6_ParseRules ==
    IsSome(parsed) =>
        LET r == parsed[1]
            quoted == Len(raw) > 0 /\ raw[1] = "\""
        IN  /\ quoted => r = <<[tag |-> "String", string |-> raw]>>
            /\ (~quoted /\ raw = <<"y">>) => r = <<[tag |-> "Tristate", tristate |-> "True"]>>
            /\ (~quoted /\ raw = <<"n">>) => r = <<[tag |-> "Tristate", tristate |-> "False"]>>
            /\ (~quoted /\ raw = <<"m">>) => r = <<[tag |-> "Tristate", tristate |-> "Module"]>>
            /\ (~quoted /\ raw \notin {<<"y">>, <<"n">>, <<"m">>}) => r = <<>>
            /\ r # <<[tag |-> "Tristate", tristate |-> "NotSet"]>>

\* Value::parse has returned no value for the text " y".
C6_Witness == IsSome(parsed) /\ raw = <<" ", "y">> /\ parsed[1] = None

----------------------------------------------------------------------------
(* Properties of load.                                                     *)

ExampleLoaded ==
    << [key |-> <<"A">>, value |-> Value_Tristate("True")],
       [key |-> <<"B">>, value |-> Value_Tristate("False")],
       [key |-> <<"C">>, value |-> Value_Tristate("Module")],
       [key |-> <<"D">>, value |-> Value_Tristate("True")] >>

\* C2: load yields the accepted lines in file order, and every yielded key is
\* the bare key without surrounding whitespace; the file A=y / # comment /
\* B=n / garbage / C=m / " D = y " loads as [(A,True),(B,False),(C,Module),
\* (D,True)].
C2_LoadExample ==
    pc = "loaded" =>
        /\ \A i \in DOMAIN args : args[i].key = trim(args[i].key)
        /\ file = ExampleFile => args = ExampleLoaded

\* The line read as the claim reads it: split on the first '=' only, the key
\* the text before it, the value parsed from the whole trimmed text after it.
FirstEqualsLine(line) ==
    IF ~IsSome(line) THEN None
    ELSE LET l == trim(line[1])
         IN  IF starts_with(l, "#") \/ ~HasChar(l, "=") THEN None
             ELSE LET i == CHOOSE j \in 1..Len(l) :
                               l[j] = "=" /\ \A k \in 1..(j - 1) : l[k] # "="
                      value == parse(trim(SubSeq(l, i + 1, Len(l))))
                  IN  IF IsSome(value)
                      THEN Some([key |-> SubSeq(l, 1, i - 1), value |-> value[1]])
                      ELSE None

RECURSIVE FirstEqualsLoad(_)
FirstEqualsLoad(lines) ==
    IF Len(lines) = 0 THEN <<>>
    ELSE FirstEqualsLine(Head(lines)) \o FirstEqualsLoad(Tail(lines))

\* C3: load splits each line on the first '=' only; the value is parsed from
\* all the text after it, so K=y=z is dropped and K="a=b" yields
\* (K, String("a=b" with its quotes)).
C3_SplitOnFirstEquals ==
    pc = "loaded" =>
        /\ args = FirstEqualsLoad(file)
        /\ file = <<Ok(<<"K", "=", "y", "=", "z">>)>> => args = <<>>
        /\ file = <<Ok(<<"K", "=", "\"", "a", "=", "b", "\"">>)>> =>
               args = <<[key |-> <<"K">>,
                         value |-> Value_String(<<"\"", "a", "=", "b", "\"">>)]>>

----------------------------------------------------------------------------
(* Properties of gather, output and propagate.                             *)

\* C4: gather(prefix) returns, in stored order and keeping duplicates, one
\* name lowercase(prefix) + "_" + lowercase(key) per pair whose value is
\* Tristate(True) and none for any other pair; gather("FOO") on
\* [(Bar,True),(Baz,False),(Qux,True)] is ["foo_bar","foo_qux"].
C4_GatherNames ==
    \A prefix \in Prefixes : \A k \in DOMAIN gathered[prefix] :
        /\ gathered[prefix][k] = ExpectedNames(args, prefix)
        /\ (args = ExampleArgs /\ prefix = <<"F", "O", "O">>) =>
               gathered[prefix][k] = << <<"f", "o", "o", "_", "b", "a", "r">>,
                                        <<"f", "o", "o", "_", "q", "u", "x">> >>

\* gather("FOO") has returned on the example pairs.
C4_Witness ==
    /\ args = ExampleArgs
    /\ called = Call("gather", <<"F", "O", "O">>, "")
    /\ Len(gathered[<<"F", "O", "O">>]) > 0

\* C8: the stored pairs are unchanged by every gather, output and propagate
\* call, and all gather calls with the same prefix return the same list,
\* whatever calls happen between them.
C8_ReadOnly ==
    [][ /\ args' = args
        /\ \A prefix \in Prefixes : \A i, j \in DOMAIN gathered'[prefix] :
               gathered'[prefix][i] = gathered'[prefix][j] ]_vars

\* Two gather calls with one prefix have returned a non-empty list, and an
\* output or propagate call has been made by the same build script.
C8_Witness ==
    \E prefix \in Prefixes :
        /\ Len(gathered[prefix]) = 2
        /\ gathered[prefix][2] # <<>>
        /\ stdout.producer # <<>>
        /\ called.op = "gather"

\* C9: propagate(prefix) prints exactly one instruction, the metadata write
\* of gather(prefix) joined with ':' under the key EMBUILD_CFG_ARGS, and no
\* flag; output(prefix) prints exactly the flags of gather(prefix), one per
\* name in order, and no metadata.
C9_PublishOnly ==
    [][ /\ (calls' = calls + 1 /\ called'.op = "propagate") =>
               /\ stdout'.producer =
                      Append(stdout.producer,
                             [instr |-> "metadata", key |-> "EMBUILD_CFG_ARGS",
                              value |-> join(ExpectedNames(args, called'.prefix), ":")])
               /\ FlagNames(stdout'.producer) = FlagNames(stdout.producer)
        /\ (calls' = calls + 1 /\ called'.op = "output") =>
               /\ FlagNames(stdout'.producer) =
                      FlagNames(stdout.producer) \o ExpectedNames(args, called'.prefix)
               /\ Len(stdout'.producer) =
                      Len(stdout.producer) + Len(ExpectedNames(args, called'.prefix))
               /\ SelectSeq(stdout'.producer, IsMetadata) =
                      SelectSeq(stdout.producer, IsMetadata) ]_vars

\* propagate has published two names after output has emitted flags.
C9_Witness ==
    /\ called.op = "propagate"
    /\ Len(stdout.producer) > 1
    /\ IsFlag(stdout.producer[1])
    /\ IsMetadata(stdout.producer[Len(stdout.producer)])
    /\ HasChar(stdout.producer[Len(stdout.producer)].value, ":")

----------------------------------------------------------------------------
(* Properties of output_propagated.                                        *)

VarState(lib_name) ==
    IF dep_var_name(lib_name) \in DOMAIN env
    THEN env[dep_var_name(lib_name)].state
    ELSE "NotPresent"

\* C5: output_propagated(id) with no variable DEP_<id>_EMBUILD_CFG_ARGS
\* returns an error and leaves the flags emitted by the step unchanged.
C5_MissingIsError ==
    [][ (calls' = calls + 1 /\ called'.op = "output_propagated"
            /\ VarState(called'.lib_name) = "NotPresent") =>
            (ret' = "Err" /\ stdout' = stdout) ]_vars

\* A call for an absent variable has failed after an earlier call emitted.
C5_Witness ==
    /\ called.op = "output_propagated"
    /\ VarState(called.lib_name) = "NotPresent"
    /\ ret = "Err"
    /\ stdout.dependent # <<>>

CountChar(s, c) == Cardinality({i \in 1..Len(s) : s[i] = c})

\* The flags a successful call must append for the value `text`: one per
\* ':'-separated segment, in order, nothing dropped.
SegmentsEmitted(before, after, text) ==
    /\ Len(after) = Len(before) + 1 + CountChar(text, ":")
    /\ SubSeq(after, 1, Len(before)) = before
    /\ \A i \in (Len(before) + 1)..Len(after) :
           IsFlag(after[i]) /\ ~HasChar(after[i].name, ":")
    /\ join(SubSeq(FlagNames(after), Len(FlagNames(before)) + 1,
                   Len(FlagNames(after))), ":") = text

\* C10 as claimed: whenever the variable is present, output_propagated
\* succeeds and emits one flag per ':'-separated segment of its value.
C10_PresentSucceeds ==
    [][ (calls' = calls + 1 /\ called'.op = "output_propagated"
            /\ VarState(called'.lib_name) # "NotPresent") =>
            ret' = "Ok" ]_vars

\* C10 amended: whenever the variable is present and its value is valid
\* Unicode, output_propagated succeeds and emits one flag per ':'-separated
\* segment of the value, in order, unfiltered: 1 + (number of ':') flags, an
\* empty segment giving a flag with the empty name.
C10_UnicodeSucceeds ==
    [][ (calls' = calls + 1 /\ called'.op = "output_propagated"
            /\ VarState(called'.lib_name) = "Unicode") =>
            /\ ret' = "Ok"
            /\ SegmentsEmitted(stdout.dependent, stdout'.dependent,
                               env[dep_var_name(called'.lib_name)].text)
            /\ stdout'.producer = stdout.producer ]_vars

\* A call has succeeded on a value with an empty segment.
C10_Witness ==
    /\ called.op = "output_propagated"
    /\ ret = "Ok"
    /\ VarState(called.lib_name) = "Unicode"
    /\ env[dep_var_name(called.lib_name)].text = <<"a", ":">>
    /\ FlagNames(stdout.dependent) = << <<"a">>, <<>> >>

----------------------------------------------------------------------------
(* Properties of the propagation channel.                                  *)

\* C1: when the keys hold no ':', the flag names output_propagated emits in
\* the dependent are exactly gather(prefix) as computed when propagate ran,
\* also when that list is empty.
C1_RoundTrip ==
    ( /\ pc = "dependent"
      /\ ret = "Ok"
      /\ IsSome(published)
      /\ \A i \in DOMAIN args : ~HasChar(args[i].key, ":") ) =>
        Range(FlagNames(stdout.dependent)) = Range(ExpectedNames(args, published[1]))

\* C7: no name of gather(prefix) holds ':', for every loaded file and every
\* prefix, so the joined value splits back into the same names.
C7_NoSeparatorInNames ==
    pc = "loaded" =>
        \A prefix \in Prefixes :
            LET names == gather(args, prefix)
            IN  /\ \A i \in DOMAIN names : ~HasChar(names[i], ":")
                /\ Len(names) > 0 => split(join(names, ":"), ":") = names

====
